---------------------------- MODULE Spec2Model ----------------------------
(***************************************************************************)
(* A model of the threshold_crypto library (src/src/lib.rs): BLS           *)
(* signatures, pairing based encryption, and their threshold variants      *)
(* combined by Lagrange interpolation at zero.                             *)
(*                                                                         *)
(* The scalar field Fr is the prime field of Order elements.  G1 and G2    *)
(* are cyclic groups of that prime order; an element a*P1 (or a*P2) is     *)
(* represented by its scalar a, so that addition is addition mod Order,    *)
(* multiplication by a scalar is multiplication mod Order, and the pairing *)
(* e(a*P1, b*P2) = e(P1,P2)^(a*b) is represented by a*b mod Order.  Every  *)
(* pair of prime order groups with a non-degenerate bilinear pairing is    *)
(* isomorphic to this one; only the order is scaled down.                  *)
(***************************************************************************)
EXTENDS Integers, Sequences, FiniteSets, TLC

(***************************************************************************)
(* Bounds of the model.                                                    *)
(***************************************************************************)
\* Largest threshold (polynomial degree) of a SecretKeySet.
MaxT == 2
\* Longest short message, in bytes.
MaxMsgLen == 2

(***************************************************************************)
(* Program constants.                                                      *)
(***************************************************************************)
\* The order of Fr, G1 and G2 (a prime).
Order == 5
\* hash_g1_g2 hashes messages longer than this, and embeds shorter ones.
HashThreshold == 64
\* The number of bytes of a sha3_256 digest.
DigestLen == 32
\* The number of 32 bit words of a ChaCha seed.
CHACHA_RNG_SEED_SIZE == 8
\* The number of values of a byte (u8).
ByteMod == 256

Fr == 0..(Order - 1)
G1 == 0..(Order - 1)
G2 == 0..(Order - 1)
Byte == 0..(ByteMod - 1)

Min(a, b) == IF a < b THEN a ELSE b

(***************************************************************************)
(* Option and Result values.                                               *)
(***************************************************************************)
None == [some |-> FALSE]
Some(v) == [some |-> TRUE, val |-> v]
Ok(v) == [ok |-> TRUE, val |-> v]
Err(e) == [ok |-> FALSE, err |-> e]

(***************************************************************************)
(* Field and group arithmetic (pairing::Field, CurveProjective, Engine).   *)
(***************************************************************************)
FrZero == 0
FrOne == 1 % Order
FrAdd(a, b) == (a + b) % Order
FrSub(a, b) == (a + Order - b) % Order
FrMul(a, b) == (a * b) % Order
\* Field::inverse: None for zero.
FrInverse(a) ==
  IF a = FrZero THEN None
  ELSE Some(CHOOSE b \in Fr : FrMul(a, b) = FrOne)

\* The generators G1Affine::one() and G2Affine::one(), and the identity.
G1One == 1 % Order
GZero == 0
\* add_assign on a group.
GAdd(g, h) == (g + h) % Order
\* CurveAffine::mul: the element g times the scalar s.
GMul(g, s) == (g * s) % Order
\* Engine::pairing.
Pairing(g1, g2) == (g1 * g2) % Order
\* into_affine().into_compressed(): the canonical byte string of an element.
Compressed(g) == <<g>>

(***************************************************************************)
(* sha3_256 and the ChaCha generator, as fixed deterministic functions.    *)
(***************************************************************************)
\* The bytes lo .. hi absorbed: a position weighted sum, halving the range.
RECURSIVE Absorb(_, _, _)
Absorb(bytes, lo, hi) ==
  IF lo > hi THEN 0
  ELSE IF lo = hi THEN ((2 * lo + 1) * (bytes[lo] + 1)) % 65521
  ELSE LET mid == (lo + hi) \div 2
       IN (Absorb(bytes, lo, mid) + Absorb(bytes, mid + 1, hi)) % 65521

\* tiny_keccak::sha3_256: a digest of DigestLen bytes.
sha3_256(bytes) ==
  LET a == (5381 + 31 * Len(bytes) + Absorb(bytes, 1, Len(bytes))) % 65521
  IN [k \in 1..DigestLen |-> (a * k + k * k + (a \div 251)) % ByteMod]

\* The seed: word i is BigEndian::read_u32 of digest bytes 4i .. 4i+3.  A
\* word is represented by its four bytes, most significant first.
SeedOf(digest) ==
  [i \in 0..(CHACHA_RNG_SEED_SIZE - 1) |-> [j \in 1..4 |-> digest[4 * i + j]]]

RECURSIVE SeedMix(_, _, _)
SeedMix(seed, n, i) ==
  IF i < 0 THEN 0
  ELSE (SeedMix(seed, n, i - 1)
        + (i + 1 + n) * (seed[i][1] + 3 * seed[i][2] + 5 * seed[i][3] + 7 * seed[i][4]))
       % 65521

\* The n-th output (n = 0, 1, ...) of ChaChaRng::from_seed(seed).
ChaChaOut(seed, n) == SeedMix(seed, n, CHACHA_RNG_SEED_SIZE - 1)

\* rng.gen() of a group element: a uniform element that is not the identity.
ChaChaGenG2(seed) == 1 + (ChaChaOut(seed, 0) % (Order - 1))

\* Bitwise xor of two bytes.
RECURSIVE XorBits(_, _, _)
XorBits(a, b, n) ==
  IF n = 0 THEN 0
  ELSE ((a + b) % 2) + 2 * XorBits(a \div 2, b \div 2, n - 1)
Xor(a, b) == XorBits(a, b, 8)

(***************************************************************************)
(* The hash constructions of lib.rs.                                       *)
(***************************************************************************)
\* hash_g2: a hash of the message in G2.
hash_g2(msg) == ChaChaGenG2(SeedOf(sha3_256(msg)))

\* hash_g1_g2: a hash of the group element and the message, in G2.
hash_g1_g2(g1, msg) ==
  LET m == IF Len(msg) > HashThreshold THEN sha3_256(msg) ELSE msg
  IN hash_g2(m \o Compressed(g1))

\* xor_with_hash: bytes xor a pseudorandom stream determined by g1.
xor_with_hash(g1, bytes) ==
  LET seed == SeedOf(sha3_256(Compressed(g1)))
  IN [k \in 1..Len(bytes) |-> Xor(ChaChaOut(seed, k - 1) % ByteMod, bytes[k])]


(***************************************************************************)
(* Polynomials and commitments (module poly).  A polynomial is the         *)
(* sequence of its coefficients c0 .. ct, a commitment the sequence of the *)
(* group elements ci * P1.                                                 *)
(***************************************************************************)
\* Poly::degree and Commitment::degree.
Degree(coeff) == Len(coeff) - 1

\* Poly::evaluate by Horner's rule: acc = acc * x + c, coefficients reversed.
RECURSIVE PolyHorner(_, _, _)
PolyHorner(coeff, x, k) ==
  IF k > Len(coeff) THEN FrZero
  ELSE FrAdd(FrMul(PolyHorner(coeff, x, k + 1), x), coeff[k])
PolyEvaluate(coeff, x) == PolyHorner(coeff, x, 1)

\* Poly::commitment: every coefficient lifted to G1.
PolyCommitment(coeff) == [k \in 1..Len(coeff) |-> GMul(G1One, coeff[k])]

\* Commitment::evaluate by Horner's rule over the group: acc = x * acc + Ci.
RECURSIVE CommitHorner(_, _, _)
CommitHorner(commit, x, k) ==
  IF k > Len(commit) THEN GZero
  ELSE GAdd(GMul(CommitHorner(commit, x, k + 1), x), commit[k])
CommitmentEvaluate(commit, x) == CommitHorner(commit, x, 1)

(***************************************************************************)
(* Indices.                                                                *)
(***************************************************************************)
\* IntoFr::into_fr: the index as a field element.
into_fr(i) == i % Order

\* into_fr_plus_1: one plus the index, in Fr.
into_fr_plus_1(x) == FrAdd(FrOne, into_fr(x))

(***************************************************************************)
(* Secret keys.  A SecretKey is the scalar in its box.                     *)
(***************************************************************************)
\* secret::clear_fr: the scalar behind the pointer after it is cleared.
clear_fr(fr) == FrZero

\* from_mut with the source cleared before it is copied into the box.
SecretKey_from_mut_clear_first(fr) == [key |-> clear_fr(fr), src |-> clear_fr(fr)]

\* SecretKey::from_mut: the new key, and the source scalar on return.
SecretKey_from_mut(fr) == [key |-> fr, src |-> clear_fr(fr)]

\* SecretKeyShare::from_mut.
SecretKeyShare_from_mut(fr) == SecretKey_from_mut(fr)

\* SecretKey::public_key.
SecretKey_public_key(sk) == GMul(G1One, sk)

\* SecretKey::sign_g2 and SecretKey::sign.
SecretKey_sign_g2(sk, hash) == GMul(hash, sk)
SecretKey_sign(sk, msg) == SecretKey_sign_g2(sk, hash_g2(msg))

\* verify_g2 with the signature and the hash exchanged.
PublicKey_verify_g2_swapped(pk, sig, hash) ==
  Pairing(pk, sig) = Pairing(G1One, hash)

\* PublicKey::verify_g2 and PublicKey::verify.
PublicKey_verify_g2(pk, sig, hash) == Pairing(pk, hash) = Pairing(G1One, sig)
PublicKey_verify(pk, sig, msg) == PublicKey_verify_g2(pk, sig, hash_g2(msg))

\* encrypt_with_rng with w made from the hash of the plaintext, not of v.
PublicKey_encrypt_hash_of_msg(pk, r, msg) ==
  LET u == GMul(G1One, r)
      v == xor_with_hash(GMul(pk, r), msg)
      w == GMul(hash_g1_g2(u, msg), r)
  IN [u |-> u, v |-> v, w |-> w]

\* PublicKey::encrypt_with_rng, r being the scalar the generator yields.
PublicKey_encrypt_with_rng(pk, r, msg) ==
  LET u == GMul(G1One, r)
      v == xor_with_hash(GMul(pk, r), msg)
      w == GMul(hash_g1_g2(u, v), r)
  IN [u |-> u, v |-> v, w |-> w]

\* Ciphertext::verify.
Ciphertext_verify(ct) ==
  Pairing(G1One, ct.w) = Pairing(ct.u, hash_g1_g2(ct.u, ct.v))

\* decrypt without the call of verify.
SecretKey_decrypt_unchecked(sk, ct) == Some(xor_with_hash(GMul(ct.u, sk), ct.v))

\* SecretKey::decrypt.
SecretKey_decrypt(sk, ct) ==
  IF ~Ciphertext_verify(ct) THEN None
  ELSE Some(xor_with_hash(GMul(ct.u, sk), ct.v))

(***************************************************************************)
(* Key shares.                                                             *)
(***************************************************************************)
\* SecretKeyShare::public_key_share.
SecretKeyShare_public_key_share(sk) == SecretKey_public_key(sk)

\* SecretKeyShare::sign.
SecretKeyShare_sign(sk, msg) == SecretKey_sign(sk, msg)

\* PublicKeyShare::verify.
PublicKeyShare_verify(pk, sig, msg) == PublicKey_verify_g2(pk, sig, hash_g2(msg))

\* SecretKeyShare::decrypt_share_no_verify.
decrypt_share_no_verify(sk, ct) == GMul(ct.u, sk)

\* decrypt_share without the call of verify.
decrypt_share_unchecked(sk, ct) == Some(decrypt_share_no_verify(sk, ct))

\* SecretKeyShare::decrypt_share.
decrypt_share(sk, ct) ==
  IF ~Ciphertext_verify(ct) THEN None
  ELSE Some(decrypt_share_no_verify(sk, ct))

\* verify_decryption_share with the generator of G1 in the place of the
\* public key share, the right-hand side of Ciphertext::verify.
verify_decryption_share_generator(pk, share, ct) ==
  Pairing(share, hash_g1_g2(ct.u, ct.v)) = Pairing(G1One, ct.w)

\* PublicKeyShare::verify_decryption_share.
verify_decryption_share(pk, share, ct) ==
  Pairing(share, hash_g1_g2(ct.u, ct.v)) = Pairing(pk, ct.w)

(***************************************************************************)
(* The combiner: Lagrange interpolation at zero.  items is the sequence    *)
(* the iterator yields, of pairs <<index, group element>>.                 *)
(***************************************************************************)
\* The first t + 1 items, each index turned into into_fr_plus_1(index).
Samples(t, items) ==
  [j \in 1..Min(Len(items), t + 1) |-> <<into_fr_plus_1(items[j][1]), items[j][2]>>]

\* tmp after the first loop has run over samples 0 .. j-1 (0-based).
RECURSIVE PrefixProd(_, _)
PrefixProd(samples, j) ==
  IF j = 0 THEN FrOne
  ELSE FrMul(PrefixProd(samples, j - 1), samples[j][1])

\* The second loop with its two statements exchanged: x_prod[i] is multiplied
\* by tmp before tmp takes the x of sample i+1, the product of the x of
\* samples i+2 .. t.
RECURSIVE SuffixProd_late(_, _)
SuffixProd_late(samples, i) ==
  IF i + 2 >= Len(samples) THEN FrOne
  ELSE FrMul(SuffixProd_late(samples, i + 1), samples[i + 3][1])

\* tmp after the second loop has reached entry i (0-based): the product of
\* the x of samples i+1 .. t.
RECURSIVE SuffixProd(_, _)
SuffixProd(samples, i) ==
  IF i + 1 >= Len(samples) THEN FrOne
  ELSE FrMul(SuffixProd(samples, i + 1), samples[i + 2][1])

\* XProd without its second loop: the prefix products alone.
XProd_prefix_only(samples, t) == [i \in 0..t |-> PrefixProd(samples, i)]

\* x_prod after both loops, 0-based index i in 0 .. t.
XProd(samples, t) ==
  [i \in 0..t |->
     IF i < t THEN FrMul(PrefixProd(samples, i), SuffixProd(samples, i))
     ELSE PrefixProd(samples, i)]

\* denom for sample j (1-based): the product of x0 - x over the samples
\* whose x0 differs from x.
RECURSIVE DenomUpTo(_, _, _)
DenomUpTo(samples, j, k) ==
  IF k = 0 THEN FrOne
  ELSE IF samples[k][1] # samples[j][1]
       THEN FrMul(DenomUpTo(samples, j, k - 1), FrSub(samples[k][1], samples[j][1]))
       ELSE DenomUpTo(samples, j, k - 1)
\* denom with the difference taken the other way round, x - x0.
RECURSIVE DenomReversedUpTo(_, _, _)
DenomReversedUpTo(samples, j, k) ==
  IF k = 0 THEN FrOne
  ELSE IF samples[k][1] # samples[j][1]
       THEN FrMul(DenomReversedUpTo(samples, j, k - 1),
                  FrSub(samples[j][1], samples[k][1]))
       ELSE DenomReversedUpTo(samples, j, k - 1)
Denom_reversed(samples, j) == DenomReversedUpTo(samples, j, Len(samples))

Denom(samples, j) == DenomUpTo(samples, j, Len(samples))

\* result after the main loop has added the first n samples.
RECURSIVE LagrangeSum(_, _, _)
LagrangeSum(samples, x_prod, n) ==
  IF n = 0 THEN GZero
  ELSE LET l0 == FrMul(x_prod[n - 1], FrInverse(Denom(samples, n)).val)
       IN GAdd(LagrangeSum(samples, x_prod, n - 1), GMul(samples[n][2], l0))

\* interpolate without take(t + 1): every item handed in is a sample, and
\* the polynomial through all of them is evaluated at zero.
interpolate_take_all(t, items) ==
  LET n == Len(items) - 1
      samples == Samples(n, items)
  IN IF Len(items) <= t THEN Err("NotEnoughShares")
     ELSE IF n = 0 THEN Ok(samples[1][2])
     ELSE IF \E j \in 1..Len(samples) : ~FrInverse(Denom(samples, j)).some
          THEN Err("DuplicateEntry")
          ELSE Ok(LagrangeSum(samples, XProd(samples, n), Len(samples)))

\* interpolate with the length test samples.len() < t; indexing the empty
\* vector panics.
interpolate_len_lt(t, items) ==
  LET samples == Samples(t, items)
  IN IF Len(samples) < t THEN Err("NotEnoughShares")
     ELSE IF t = 0
          THEN IF Len(samples) = 0 THEN Err("panic") ELSE Ok(samples[1][2])
     ELSE IF \E j \in 1..Len(samples) : ~FrInverse(Denom(samples, j)).some
          THEN Err("DuplicateEntry")
          ELSE Ok(LagrangeSum(samples, XProd(samples, t), Len(samples)))

\* interpolate, lines 580-628.
interpolate(t, items) ==
  LET samples == Samples(t, items)
  IN IF Len(samples) <= t THEN Err("NotEnoughShares")
     ELSE IF t = 0 THEN Ok(samples[1][2])
     ELSE IF \E j \in 1..Len(samples) : ~FrInverse(Denom(samples, j)).some
          THEN Err("DuplicateEntry")
          ELSE Ok(LagrangeSum(samples, XProd(samples, t), Len(samples)))

(***************************************************************************)
(* Key sets.  A SecretKeySet is its polynomial, a PublicKeySet its         *)
(* commitment.                                                             *)
(***************************************************************************)
\* SecretKeySet::threshold and PublicKeySet::threshold.
SecretKeySet_threshold(poly) == Degree(poly)
PublicKeySet_threshold(commit) == Degree(commit)

\* SecretKeySet::secret_key_share: the share, and the local fr on return.
secret_key_share(poly, i) ==
  SecretKeyShare_from_mut(PolyEvaluate(poly, into_fr_plus_1(i)))

\* SecretKeySet::secret_key (the master key).
secret_key(poly) == SecretKey_from_mut(PolyEvaluate(poly, into_fr(0)))

\* SecretKeySet::public_keys.
public_keys(poly) == PolyCommitment(poly)

\* PublicKeySet::public_key.
PublicKeySet_public_key(commit) == commit[1]

\* public_key_share evaluated at the index itself, without the shift by one.
public_key_share_unshifted(commit, i) == CommitmentEvaluate(commit, into_fr(i))

\* PublicKeySet::public_key_share.
public_key_share(commit, i) == CommitmentEvaluate(commit, into_fr_plus_1(i))

\* PublicKeySet::combine_signatures.
combine_signatures(commit, shares) == interpolate(Degree(commit), shares)

\* PublicKeySet::decrypt.
PublicKeySet_decrypt(commit, shares, ct) ==
  LET g == interpolate(Degree(commit), shares)
  IN IF g.ok THEN Ok(xor_with_hash(g.val, ct.v)) ELSE g

(***************************************************************************)
(* The state: the objects a caller of the library holds.                   *)
(***************************************************************************)
VARIABLES
  poly,     \* SecretKeySet.poly: the coefficients c0 .. ct
  commit,   \* PublicKeySet.commit, or NoCommit before public_keys()
  sk,       \* the scalar of a SecretKey
  skOther,  \* the scalar of a second SecretKey
  msg,      \* the message
  sig,      \* the last Signature made, with the scalar that signed it
  ct,       \* the Ciphertext at hand, or NoCt
  origin,   \* how ct was obtained: "none", "encrypt" or "tampered"
  shares,   \* the <<index, share>> pairs collected for the combiner
  fr,       \* the local scalar the last from_mut call was given, on return
  out       \* the last operation and what it returned

vars == <<poly, commit, sk, skOther, msg, sig, ct, origin, shares, fr, out>>

NoCommit == <<>>
NoCt == [u |-> GZero, v |-> <<>>, w |-> GZero, none |-> TRUE]
NoSig == [none |-> TRUE]
NoOut == [op |-> "none"]

\* The polynomials of degree at most MaxT.
Polys == UNION {[1..n -> Fr] : n \in 1..(MaxT + 1)}

\* The indices a caller passes: every value of Fr.
Indices == 0..(Order - 1)

\* The messages: the short ones, and one longer than HashThreshold.
RECURSIVE SeqsUpTo(_, _)
SeqsUpTo(S, n) ==
  IF n = 0 THEN {<<>>}
  ELSE LET shorter == SeqsUpTo(S, n - 1)
       IN shorter \cup {Append(q, b) : q \in {r \in shorter : Len(r) = n - 1}, b \in S}
LongMsg == [k \in 1..(HashThreshold + 1) |-> k % 2]
Msgs == SeqsUpTo({0, 1}, MaxMsgLen) \cup {LongMsg}

\* The message of the threshold scenarios.
ThresholdMsgs == {<<0, 1>>}

Indexes(items) == {items[j][1] : j \in 1..Len(items)}

(***************************************************************************)
(* Threshold signatures: a key set, shares signed for chosen indices in    *)
(* the order they are handed to the combiner, and combine_signatures.      *)
(***************************************************************************)
InitSig ==
  /\ poly \in Polys
  /\ commit = public_keys(poly)
  /\ sk = FrZero
  /\ skOther = FrZero
  /\ msg \in ThresholdMsgs
  /\ sig = NoSig
  /\ ct = NoCt
  /\ origin = "none"
  /\ shares = <<>>
  /\ fr = FrZero
  /\ out = NoOut

\* sk_set.secret_key_share(i).sign(msg), added to the shares.
SignShare(i) ==
  /\ Len(shares) <= Degree(poly)
  /\ LET share == secret_key_share(poly, i)
     IN /\ shares' = Append(shares, <<i, SecretKeyShare_sign(share.key, msg)>>)
        /\ fr' = share.src
  /\ out' = NoOut
  /\ UNCHANGED <<poly, commit, sk, skOther, msg, sig, ct, origin>>

\* pk_set.combine_signatures(shares).
CombineSignatures ==
  /\ out' = [op |-> "combine_signatures", res |-> combine_signatures(commit, shares)]
  /\ UNCHANGED <<poly, commit, sk, skOther, msg, sig, ct, origin, shares, fr>>

NextSig ==
  \/ \E i \in Indices : SignShare(i)
  \/ CombineSignatures

SpecSig == InitSig /\ [][NextSig]_vars

\* The pairs the combiner takes: the first t + 1.
Taken == SubSeq(shares, 1, Min(Len(shares), Degree(poly) + 1))
\* The indices of the pairs taken are pairwise distinct.
TakenDistinct == Cardinality(Indexes(Taken)) = Len(Taken)
\* The master signature f(0) * H2(msg), f(0) being the constant coefficient.
MasterSignature == GMul(hash_g2(msg), poly[1])

\* C1: combine_signatures on the signature shares of t+1 pairwise distinct
\* indices returns Ok of the master signature f(0) * H2(msg), whichever the
\* indices and their order, and that signature verifies against the master
\* public key.
C1_CombinedIsMasterSignature ==
  (/\ out.op = "combine_signatures"
   /\ Len(shares) = Degree(poly) + 1
   /\ TakenDistinct)
  => /\ out.res = Ok(MasterSignature)
     /\ Pairing(PublicKeySet_public_key(commit), hash_g2(msg)) = Pairing(G1One, out.res.val)

C1_Witness ==
  /\ out.op = "combine_signatures"
  /\ Degree(poly) = 2
  /\ Len(shares) = 3
  /\ TakenDistinct
  /\ poly[2] # FrZero
  /\ poly[3] # FrZero
  /\ out.res = Ok(MasterSignature)
  /\ MasterSignature # GZero

\* C2: with t >= 1, when two of the first t+1 samples carry the same index
\* the combiner fails with DuplicateEntry.
C2_DuplicateIsRejected ==
  (/\ out.op = "combine_signatures"
   /\ Degree(poly) >= 1
   /\ Len(shares) = Degree(poly) + 1
   /\ ~TakenDistinct)
  => out.res = Err("DuplicateEntry")

\* C9: with fewer than t+1 samples the combiner fails with NotEnoughShares,
\* for every t (t = 0 and no sample included), whether or not the samples
\* repeat an index.
C9_NotEnoughShares ==
  (/\ out.op = "combine_signatures"
   /\ Len(shares) < Degree(poly) + 1)
  => out.res = Err("NotEnoughShares")

C9_Witness ==
  /\ out.op = "combine_signatures"
  /\ Degree(poly) = 2
  /\ Len(shares) = 2
  /\ ~TakenDistinct
  /\ out.res = Err("NotEnoughShares")

(***************************************************************************)
(* Plain signatures: two secret keys, a signature by either, verified      *)
(* against the public key of the first.                                    *)
(***************************************************************************)
InitSign ==
  /\ poly = <<FrZero>>
  /\ commit = NoCommit
  /\ sk \in Fr
  /\ skOther \in Fr
  /\ msg \in Msgs
  /\ sig = NoSig
  /\ ct = NoCt
  /\ origin = "none"
  /\ shares = <<>>
  /\ fr = FrZero
  /\ out = NoOut

\* sk.sign(msg).
Sign ==
  /\ sig' = [val |-> SecretKey_sign(sk, msg), by |-> sk]
  /\ out' = NoOut
  /\ UNCHANGED <<poly, commit, sk, skOther, msg, ct, origin, shares, fr>>

\* skOther.sign(msg).
SignOther ==
  /\ sig' = [val |-> SecretKey_sign(skOther, msg), by |-> skOther]
  /\ out' = NoOut
  /\ UNCHANGED <<poly, commit, sk, skOther, msg, ct, origin, shares, fr>>

\* sk.public_key().verify(&sig, msg).
Verify ==
  /\ sig # NoSig
  /\ out' = [op |-> "verify",
             res |-> PublicKey_verify(SecretKey_public_key(sk), sig.val, msg)]
  /\ UNCHANGED <<poly, commit, sk, skOther, msg, sig, ct, origin, shares, fr>>

NextSign == Sign \/ SignOther \/ Verify

SpecSign == InitSign /\ [][NextSign]_vars

\* C4: a signature made by a key verifies against that key's public key.
C4_OwnSignatureVerifies ==
  (out.op = "verify" /\ sig.by = sk) => out.res = TRUE

C4_Witness ==
  /\ out.op = "verify"
  /\ sig.by = sk
  /\ sk > 1
  /\ Len(msg) > HashThreshold
  /\ out.res = TRUE

\* C5: a signature made by a key holding another scalar never verifies.
C5_OtherSignatureFails ==
  (out.op = "verify" /\ sig.by # sk) => out.res = FALSE

C5_Witness ==
  /\ out.op = "verify"
  /\ sig.by = skOther
  /\ skOther # sk
  /\ sk # FrZero
  /\ skOther # FrZero
  /\ out.res = FALSE

(***************************************************************************)
(* Encryption: a key pair, a ciphertext made by encrypt_with_rng or        *)
(* altered afterwards, and the operations on it.                           *)
(***************************************************************************)
InitEnc ==
  /\ poly = <<FrZero>>
  /\ commit = NoCommit
  /\ sk \in Fr
  /\ skOther = FrZero
  /\ msg \in Msgs
  /\ sig = NoSig
  /\ ct = NoCt
  /\ origin = "none"
  /\ shares = <<>>
  /\ fr = FrZero
  /\ out = NoOut

Zeros(n) == [k \in 1..n |-> 0]

\* sk.public_key().encrypt_with_rng(rng, msg), the generator yielding r.
Encrypt(r) ==
  /\ ct = NoCt
  /\ ct' = PublicKey_encrypt_with_rng(SecretKey_public_key(sk), r, msg)
  /\ origin' = "encrypt"
  /\ out' = NoOut
  /\ UNCHANGED <<poly, commit, sk, skOther, msg, sig, shares, fr>>

\* Ciphertext(u', v, w): the first component replaced.
TamperU(u) ==
  /\ ct # NoCt
  /\ u # ct.u
  /\ ct' = [ct EXCEPT !.u = u]
  /\ origin' = "tampered"
  /\ out' = NoOut
  /\ UNCHANGED <<poly, commit, sk, skOther, msg, sig, shares, fr>>

\* Ciphertext(u, v', w): the bytes replaced.
TamperV(v) ==
  /\ ct # NoCt
  /\ v # ct.v
  /\ ct' = [ct EXCEPT !.v = v]
  /\ origin' = "tampered"
  /\ out' = NoOut
  /\ UNCHANGED <<poly, commit, sk, skOther, msg, sig, shares, fr>>

\* Ciphertext(u, v, w'): the last component replaced.
TamperW(w) ==
  /\ ct # NoCt
  /\ w # ct.w
  /\ ct' = [ct EXCEPT !.w = w]
  /\ origin' = "tampered"
  /\ out' = NoOut
  /\ UNCHANGED <<poly, commit, sk, skOther, msg, sig, shares, fr>>

\* ct.verify().
CtVerify ==
  /\ ct # NoCt
  /\ out' = [op |-> "ct_verify", res |-> Ciphertext_verify(ct)]
  /\ UNCHANGED <<poly, commit, sk, skOther, msg, sig, ct, origin, shares, fr>>

\* sk.decrypt(&ct).
Decrypt ==
  /\ ct # NoCt
  /\ out' = [op |-> "decrypt", res |-> SecretKey_decrypt(sk, ct)]
  /\ UNCHANGED <<poly, commit, sk, skOther, msg, sig, ct, origin, shares, fr>>

\* SecretKeyShare(sk).decrypt_share(&ct).
DecryptShare ==
  /\ ct # NoCt
  /\ out' = [op |-> "decrypt_share", res |-> decrypt_share(sk, ct)]
  /\ UNCHANGED <<poly, commit, sk, skOther, msg, sig, ct, origin, shares, fr>>

NextEnc ==
  \/ \E r \in Fr : Encrypt(r)
  \/ \E u \in G1 : TamperU(u)
  \/ \E v \in Msgs \cup {Zeros(Len(ct.v))} : TamperV(v)
  \/ \E w \in G2 : TamperW(w)
  \/ CtVerify
  \/ Decrypt
  \/ DecryptShare

SpecEnc == InitEnc /\ [][NextEnc]_vars

\* C6: a ciphertext made by encrypt_with_rng, whatever the key, the message
\* and the scalar drawn, passes verify(), and decrypt returns Some of the
\* message.
C6_EncryptDecryptRoundTrip ==
  origin = "encrypt" =>
    /\ out.op = "ct_verify" => out.res = TRUE
    /\ out.op = "decrypt" => out.res = Some(msg)

C6_Witness ==
  /\ origin = "encrypt"
  /\ out.op = "decrypt"
  /\ out.res = Some(msg)
  /\ Len(msg) > HashThreshold
  /\ ct.v # msg
  /\ ct.u # GZero
  /\ sk > 1

\* The pairing equation e(P1, W) = e(U, H12(U, V)) of a ciphertext.
WellFormed(c) == (c.w * 1) % Order = (c.u * hash_g1_g2(c.u, c.v)) % Order

\* C8: decrypt returns None exactly when the ciphertext fails verify() and
\* Some(X(sk * U, V)) otherwise; decrypt_share returns Some(sk * U) exactly
\* when it passes and None otherwise; neither changes the key or the
\* ciphertext.
C8_DecryptChecksCiphertext ==
  [][/\ (out' # out /\ out'.op = "decrypt") =>
          /\ out'.res = IF WellFormed(ct)
                        THEN Some(xor_with_hash((sk * ct.u) % Order, ct.v))
                        ELSE None
          /\ sk' = sk /\ ct' = ct
     /\ (out' # out /\ out'.op = "decrypt_share") =>
          /\ out'.res = IF WellFormed(ct) THEN Some((sk * ct.u) % Order) ELSE None
          /\ sk' = sk /\ ct' = ct]_vars

C8_Witness ==
  /\ out.op = "decrypt"
  /\ origin = "tampered"
  /\ ~WellFormed(ct)
  /\ out.res = None
  /\ ct.u # GZero

(***************************************************************************)
(* Threshold decryption: a key set, a ciphertext encrypted to its master   *)
(* public key and possibly altered, decryption shares collected in a map   *)
(* ordered by index (as a BTreeMap is), and PublicKeySet::decrypt.         *)
(***************************************************************************)
InitThreshEnc ==
  /\ poly \in Polys
  /\ commit = public_keys(poly)
  /\ sk = FrZero
  /\ skOther = FrZero
  /\ msg \in ThresholdMsgs
  /\ sig = NoSig
  /\ ct = NoCt
  /\ origin = "none"
  /\ shares = <<>>
  /\ fr = FrZero
  /\ out = NoOut

\* pk_set.public_key().encrypt_with_rng(rng, msg), the generator yielding r.
EncryptMaster(r) ==
  /\ ct = NoCt
  /\ ct' = PublicKey_encrypt_with_rng(PublicKeySet_public_key(commit), r, msg)
  /\ origin' = "encrypt"
  /\ out' = NoOut
  /\ UNCHANGED <<poly, commit, sk, skOther, msg, sig, shares, fr>>

\* Ciphertext(u, vec![0; v.len()], w).
TamperZeroV ==
  /\ ct # NoCt
  /\ ct.v # Zeros(Len(ct.v))
  /\ ct' = [ct EXCEPT !.v = Zeros(Len(ct.v))]
  /\ origin' = "tampered"
  /\ out' = NoOut
  /\ UNCHANGED <<poly, commit, sk, skOther, msg, sig, shares, fr>>

\* The next key of the map of shares is above the keys it holds.
NextKey(i) == \A j \in Indexes(shares) : j < i

\* sk_set.secret_key_share(i).decrypt_share(&ct), kept when it is Some.
CollectShare(i) ==
  /\ ct # NoCt
  /\ Len(shares) <= Degree(poly)
  /\ NextKey(i)
  /\ LET share == secret_key_share(poly, i)
         d == decrypt_share(share.key, ct)
     IN /\ shares' = IF d.some THEN Append(shares, <<i, d.val>>) ELSE shares
        /\ fr' = share.src
        /\ out' = [op |-> "decrypt_share", res |-> d]
  /\ UNCHANGED <<poly, commit, sk, skOther, msg, sig, ct, origin>>

\* sk_set.secret_key_share(i).decrypt_share_no_verify(&ct), kept.
CollectShareNoVerify(i) ==
  /\ ct # NoCt
  /\ Len(shares) <= Degree(poly)
  /\ NextKey(i)
  /\ LET share == secret_key_share(poly, i)
     IN /\ shares' = Append(shares, <<i, decrypt_share_no_verify(share.key, ct)>>)
        /\ fr' = share.src
  /\ out' = NoOut
  /\ UNCHANGED <<poly, commit, sk, skOther, msg, sig, ct, origin>>

\* pk_set.decrypt(&shares, &ct).
PksDecrypt ==
  /\ ct # NoCt
  /\ out' = [op |-> "pks_decrypt", res |-> PublicKeySet_decrypt(commit, shares, ct)]
  /\ UNCHANGED <<poly, commit, sk, skOther, msg, sig, ct, origin, shares, fr>>

\* sk_set.secret_key().decrypt(&ct), by the dealer, before any share is
\* collected.
MasterDecrypt ==
  /\ ct # NoCt
  /\ shares = <<>>
  /\ LET master == secret_key(poly)
     IN /\ out' = [op |-> "decrypt", res |-> SecretKey_decrypt(master.key, ct)]
        /\ fr' = master.src
  /\ UNCHANGED <<poly, commit, sk, skOther, msg, sig, ct, origin, shares>>

NextThreshEnc ==
  \/ \E r \in Fr : EncryptMaster(r)
  \/ TamperZeroV
  \/ \E i \in Indices : CollectShare(i)
  \/ \E i \in Indices : CollectShareNoVerify(i)
  \/ PksDecrypt
  \/ MasterDecrypt

SpecThreshEnc == InitThreshEnc /\ [][NextThreshEnc]_vars

\* C3 as claimed: on a ciphertext that fails verify(), decrypt,
\* decrypt_share and the threshold PublicKeySet::decrypt all return no bytes.
C3_NoDecryptionOfInvalid ==
  (ct # NoCt /\ ~WellFormed(ct)) =>
    /\ out.op = "decrypt" => out.res = None
    /\ out.op = "decrypt_share" => out.res = None
    /\ out.op = "pks_decrypt" => ~out.res.ok

\* C3 as amended: on a ciphertext that fails verify(), decrypt and
\* decrypt_share return None; PublicKeySet::decrypt calls no verify and, given
\* t+1 samples of pairwise distinct indices, returns Ok of bytes of the
\* length of V.
C3_OnlyKeyHoldersCheck ==
  (ct # NoCt /\ ~WellFormed(ct)) =>
    /\ out.op = "decrypt" => out.res = None
    /\ out.op = "decrypt_share" => out.res = None
    /\ (out.op = "pks_decrypt" /\ Len(shares) = Degree(poly) + 1 /\ TakenDistinct) =>
         (out.res.ok /\ Len(out.res.val) = Len(ct.v))

C3_Witness ==
  /\ ct # NoCt
  /\ ~WellFormed(ct)
  /\ origin = "tampered"
  /\ ct.u # GZero
  /\ out.op = "decrypt_share"
  /\ out.res = None
  /\ Len(shares) = 1

\* C7: for a ciphertext of msg under the master public key and the
\* decryption shares of t+1 pairwise distinct indices, PublicKeySet::decrypt
\* returns Ok(msg), and the interpolated element is f(0) * U = r * pk.
C7_ThresholdDecryption ==
  (/\ origin = "encrypt"
   /\ out.op = "pks_decrypt"
   /\ Len(shares) = Degree(poly) + 1)
  => /\ out.res = Ok(msg)
     /\ interpolate(Degree(commit), shares) = Ok((poly[1] * ct.u) % Order)
     /\ (poly[1] * ct.u) % Order = (ct.u * PublicKeySet_public_key(commit)) % Order

C7_Witness ==
  /\ origin = "encrypt"
  /\ out.op = "pks_decrypt"
  /\ Degree(poly) = 2
  /\ Len(shares) = 3
  /\ poly[3] # FrZero
  /\ poly[1] # FrZero
  /\ ct.u # GZero
  /\ ct.v # msg
  /\ Len(msg) = 2
  /\ out.res = Ok(msg)

(***************************************************************************)
(* Key sets: the shares and public keys derived from a polynomial.         *)
(***************************************************************************)
InitKeys ==
  /\ poly \in Polys
  /\ commit = NoCommit
  /\ sk = FrZero
  /\ skOther = FrZero
  /\ msg = <<>>
  /\ sig = NoSig
  /\ ct = NoCt
  /\ origin = "none"
  /\ shares = <<>>
  /\ fr = FrZero
  /\ out = NoOut

\* sk_set.public_keys().
PublicKeys ==
  /\ commit' = public_keys(poly)
  /\ out' = [op |-> "public_keys"]
  /\ UNCHANGED <<poly, sk, skOther, msg, sig, ct, origin, shares, fr>>

\* sk_set.secret_key_share(i).
SecretKeyShareOf(i) ==
  /\ LET share == secret_key_share(poly, i)
     IN /\ out' = [op |-> "secret_key_share", i |-> i, key |-> share.key]
        /\ fr' = share.src
  /\ UNCHANGED <<poly, commit, sk, skOther, msg, sig, ct, origin, shares>>

\* pk_set.public_key_share(i).
PublicKeyShareOf(i) ==
  /\ commit # NoCommit
  /\ out' = [op |-> "public_key_share", i |-> i, pk |-> public_key_share(commit, i)]
  /\ UNCHANGED <<poly, commit, sk, skOther, msg, sig, ct, origin, shares, fr>>

\* pk_set.public_key().
MasterPublicKey ==
  /\ commit # NoCommit
  /\ out' = [op |-> "public_key", pk |-> PublicKeySet_public_key(commit)]
  /\ UNCHANGED <<poly, commit, sk, skOther, msg, sig, ct, origin, shares, fr>>

\* sk_set.threshold() and pk_set.threshold().
Thresholds ==
  /\ commit # NoCommit
  /\ out' = [op |-> "threshold", sks |-> SecretKeySet_threshold(poly),
             pks |-> PublicKeySet_threshold(commit)]
  /\ UNCHANGED <<poly, commit, sk, skOther, msg, sig, ct, origin, shares, fr>>

NextKeys ==
  \/ PublicKeys
  \/ \E i \in Indices : SecretKeyShareOf(i)
  \/ \E i \in Indices : PublicKeyShareOf(i)
  \/ MasterPublicKey
  \/ Thresholds

SpecKeys == InitKeys /\ [][NextKeys]_vars

\* f(x) as the sum of the ci * x^i.
RECURSIVE Power(_, _)
Power(x, n) == IF n = 0 THEN 1 % Order ELSE (x * Power(x, n - 1)) % Order
RECURSIVE SumOfTerms(_, _, _)
SumOfTerms(coeff, x, n) ==
  IF n = 0 THEN 0
  ELSE (SumOfTerms(coeff, x, n - 1) + coeff[n] * Power(x, n - 1)) % Order
ValueAt(coeff, x) == SumOfTerms(coeff, x, Len(coeff))

\* C10: secret_key_share(i) holds f(i+1); public_key_share(i) is f(i+1) * P1,
\* the public key share of secret_key_share(i); public_key() is f(0) * P1;
\* both key sets report the same threshold.
C10_KeySetConsistency ==
  /\ out.op = "secret_key_share" => out.key = ValueAt(poly, (out.i + 1) % Order)
  /\ out.op = "public_key_share" =>
       /\ out.pk = (ValueAt(poly, (out.i + 1) % Order) * G1One) % Order
       /\ out.pk = SecretKeyShare_public_key_share(secret_key_share(poly, out.i).key)
  /\ out.op = "public_key" => out.pk = (poly[1] * G1One) % Order
  /\ out.op = "threshold" => (out.pks = out.sks /\ out.sks = Len(poly) - 1)

C10_Witness ==
  /\ out.op = "public_key_share"
  /\ Degree(poly) = 2
  /\ poly[2] # FrZero
  /\ poly[3] # FrZero
  /\ out.i = 2
  /\ out.pk = (ValueAt(poly, 3) * G1One) % Order
  /\ out.pk # PublicKeySet_public_key(commit)

(***************************************************************************)
(* The evaluation point of a share.                                        *)
(***************************************************************************)
\* The point at which the key set evaluates its polynomial for index i.
SharePoint(i) == into_fr_plus_1(i)

\* C11: no index makes a key set evaluate at zero: secret_key_share(i) is
\* f(x) and public_key_share(i) is f(x) * P1 for a point x = i + 1 that is
\* not zero, so the master key f(0) is never handed out as a share.
C11_ShareNeverAtZero ==
  /\ out.op = "secret_key_share" =>
       /\ SharePoint(out.i) # FrZero
       /\ \E x \in Fr \ {FrZero} : x = SharePoint(out.i) /\ out.key = ValueAt(poly, x)
  /\ out.op = "public_key_share" =>
       /\ SharePoint(out.i) # FrZero
       /\ \E x \in Fr \ {FrZero} :
            x = SharePoint(out.i) /\ out.pk = GMul(G1One, ValueAt(poly, x))

(***************************************************************************)
(* The combiner on arbitrary samples: a public key set of each threshold   *)
(* and a list of (index, signature share) pairs that holds up to one pair  *)
(* more than the combiner takes.  The pairs are whatever the caller hands  *)
(* in: any index, any group element, repeated or not.                      *)
(***************************************************************************)
\* The polynomial 0 of each degree: the combiner reads only the degree.
ZeroPolys == {[k \in 1..n |-> FrZero] : n \in 1..(MaxT + 1)}

\* The group elements a caller hands in as signature shares.
SampleValues == {1, 2}

InitCombine ==
  /\ poly \in ZeroPolys
  /\ commit = public_keys(poly)
  /\ sk = FrZero
  /\ skOther = FrZero
  /\ msg = <<>>
  /\ sig = NoSig
  /\ ct = NoCt
  /\ origin = "none"
  /\ shares = <<>>
  /\ fr = FrZero
  /\ out = NoOut

\* One more (index, share) pair in the caller's list.
AddSample(i, v) ==
  /\ Len(shares) <= PublicKeySet_threshold(commit) + 1
  /\ shares' = Append(shares, <<i, v>>)
  /\ out' = NoOut
  /\ UNCHANGED <<poly, commit, sk, skOther, msg, sig, ct, origin, fr>>

NextCombine ==
  \/ \E i \in Indices, v \in SampleValues : AddSample(i, v)
  \/ CombineSignatures

SpecCombine == InitCombine /\ [][NextCombine]_vars

\* The pairs beyond the first t + 1.
Excess == SubSeq(shares, PublicKeySet_threshold(commit) + 2, Len(shares))

\* C12: the combiner reads exactly the first t+1 pairs in iteration order:
\* with more than t+1 pairs handed in, the result is the result on the first
\* t+1 alone, and no later pair (a repeated index, a wrong value) turns an
\* Ok result into an error; for t = 0 the result is the first pair's value.
C12_OnlyFirstSamplesCount ==
  out.op = "combine_signatures" =>
    LET t == PublicKeySet_threshold(commit)
        first == SubSeq(shares, 1, Min(Len(shares), t + 1))
    IN /\ out.res = interpolate(t, first)
       /\ (Len(shares) > t /\ interpolate(t, first).ok) => out.res.ok
       /\ (t = 0 /\ Len(shares) >= 1) => out.res = Ok(shares[1][2])

C12_Witness ==
  /\ out.op = "combine_signatures"
  /\ PublicKeySet_threshold(commit) = 1
  /\ Len(shares) = 3
  /\ Len(Excess) = 1
  /\ Excess[1][1] = shares[1][1]
  /\ Excess[1][2] # shares[1][2]
  /\ shares[1][1] # shares[2][1]
  /\ shares[1][2] # shares[2][2]
  /\ out.res.ok

(***************************************************************************)
(* The Lagrange formula, written out from its definition.                  *)
(***************************************************************************)
\* The product of the x[k], k in 1..n, k # j.
RECURSIVE ProductOfOthers(_, _, _)
ProductOfOthers(x, j, n) ==
  IF n = 0 THEN 1 % Order
  ELSE IF n = j THEN ProductOfOthers(x, j, n - 1)
       ELSE (ProductOfOthers(x, j, n - 1) * x[n]) % Order

\* The product of the x[k] - x[j], k in 1..n, k # j.
RECURSIVE ProductOfDifferences(_, _, _)
ProductOfDifferences(x, j, n) ==
  IF n = 0 THEN 1 % Order
  ELSE IF n = j THEN ProductOfDifferences(x, j, n - 1)
       ELSE (ProductOfDifferences(x, j, n - 1) * (x[n] - x[j] + Order)) % Order

\* lambda_j: the quotient of the two products.
Lambda(x, j) ==
  CHOOSE l \in Fr :
    (l * ProductOfDifferences(x, j, Len(x))) % Order = ProductOfOthers(x, j, Len(x))

\* The sum of the lambda_j * S_j, j in 1..n.
RECURSIVE SumOfLagrangeTerms(_, _, _)
SumOfLagrangeTerms(x, s, n) ==
  IF n = 0 THEN 0
  ELSE (SumOfLagrangeTerms(x, s, n - 1) + Lambda(x, n) * s[n]) % Order

\* The orders in which n samples can be handed in.
Orderings(n) ==
  {p \in [1..n -> 1..n] : \A a, b \in 1..n : p[a] = p[b] => a = b}

\* C13: on exactly t+1 samples with pairwise distinct indices the combiner
\* returns the sum of the lambda_j * S_j, lambda_j the product over k # j of
\* x_k / (x_k - x_j) with x_j = i_j + 1; the result is the same in whatever
\* order the samples are handed in; and x_prod[j] is the product of the x_k,
\* k # j, for every j in 0..t.
C13_LagrangeAtZero ==
  (/\ out.op = "combine_signatures"
   /\ Len(shares) = Degree(commit) + 1
   /\ TakenDistinct) =>
    LET t == Degree(commit)
        x == [j \in 1..(t + 1) |-> (shares[j][1] + 1) % Order]
        s == [j \in 1..(t + 1) |-> shares[j][2]]
    IN /\ out.res = Ok(SumOfLagrangeTerms(x, s, t + 1))
       /\ \A p \in Orderings(t + 1) :
            combine_signatures(commit, [j \in 1..(t + 1) |-> shares[p[j]]]) = out.res
       /\ \A j \in 0..t :
            XProd(Samples(t, shares), t)[j] = ProductOfOthers(x, j + 1, t + 1)

C13_Witness ==
  /\ out.op = "combine_signatures"
  /\ Degree(commit) = 2
  /\ Len(shares) = 3
  /\ TakenDistinct
  /\ shares[1][1] > shares[2][1]
  /\ shares[3][1] > shares[1][1]
  /\ shares[1][2] # shares[2][2]
  /\ out.res.ok
  /\ out.res.val # GZero
  /\ out.res.val \notin {shares[j][2] : j \in 1..3}

(***************************************************************************)
(* A ciphertext whose bytes are replaced once: Ciphertext(u, v', w) built  *)
(* from the parts of a ciphertext that encrypt_with_rng returned.          *)
(***************************************************************************)
\* The bytes put in the place of v: a message, zeros of the same length,
\* and for a v above the threshold of hash_g1_g2 its sha3_256 digest.
ReplacementsOf(v) ==
  Msgs \cup {Zeros(Len(v))}
       \cup (IF Len(v) > HashThreshold THEN {sha3_256(v)} ELSE {})

\* Ciphertext(u, v', w) from the parts of the ciphertext of encrypt_with_rng.
ReplaceV(v) ==
  /\ origin = "encrypt"
  /\ v # ct.v
  /\ ct' = [ct EXCEPT !.v = v]
  /\ origin' = "tampered"
  /\ out' = NoOut
  /\ UNCHANGED <<poly, commit, sk, skOther, msg, sig, shares, fr>>

NextTamper ==
  \/ \E r \in Fr : Encrypt(r)
  \/ \E v \in ReplacementsOf(ct.v) : ReplaceV(v)
  \/ CtVerify
  \/ Decrypt

SpecTamper == InitEnc /\ [][NextTamper]_vars

\* The byte string hash_g1_g2 hands to hash_g2.
H12Input(g1, bytes) ==
  (IF Len(bytes) > HashThreshold THEN sha3_256(bytes) ELSE bytes) \o Compressed(g1)

\* The v encrypt_with_rng returned: u is left as it was and stands for the
\* scalar r it was made of.
OriginalV == PublicKey_encrypt_with_rng(SecretKey_public_key(sk), ct.u, msg).v

\* sha3_256 and hash_g2 taken as collision free on the two ciphertexts:
\* distinct long v have distinct digests, and distinct inputs of hash_g2 have
\* distinct hashes.
NoHashCollision ==
  /\ (Len(ct.v) > HashThreshold /\ Len(OriginalV) > HashThreshold /\ ct.v # OriginalV)
       => sha3_256(ct.v) # sha3_256(OriginalV)
  /\ H12Input(ct.u, ct.v) # H12Input(ct.u, OriginalV)
       => hash_g2(H12Input(ct.u, ct.v)) # hash_g2(H12Input(ct.u, OriginalV))

\* C14: with the hash functions collision free, a ciphertext of
\* encrypt_with_rng with r # 0 whose v is replaced by any other byte string,
\* of the same or another length, fails verify() and decrypt returns None.
C14_TamperedVIsRejected ==
  (/\ origin = "tampered"
   /\ ct.u # GZero
   /\ ct.v # OriginalV
   /\ NoHashCollision) =>
    /\ out.op = "ct_verify" => out.res = FALSE
    /\ out.op = "decrypt" => out.res = None

(***************************************************************************)
(* Secret keys in memory: sk is the scalar in the box of a key, skOther    *)
(* the scalar in the box of its clone, fr the Fr on the stack that a       *)
(* constructor is handed by mutable reference.                             *)
(***************************************************************************)
\* Default for SecretKey: from_mut of a local Fr::zero().
SecretKey_default == SecretKey_from_mut(FrZero)

\* Rand for SecretKey: from_mut of the local Fr the generator yields.
SecretKey_rand(x) == SecretKey_from_mut(x)

\* Clone for SecretKey: from_mut of a local copy of the scalar in the box.
SecretKey_clone(key) == SecretKey_from_mut(key)

InitSecret ==
  /\ poly = <<FrZero>>
  /\ commit = NoCommit
  /\ sk = SecretKey_default.key
  /\ skOther = SecretKey_default.key
  /\ msg = <<>>
  /\ sig = NoSig
  /\ ct = NoCt
  /\ origin = "none"
  /\ shares = <<>>
  /\ fr \in Fr
  /\ out = NoOut

\* The caller's scalar takes a value.
AssignFr(x) ==
  /\ fr' = x
  /\ out' = NoOut
  /\ UNCHANGED <<poly, commit, sk, skOther, msg, sig, ct, origin, shares>>

\* sk = SecretKey::from_mut(&mut fr).
FromMut ==
  /\ LET made == SecretKey_from_mut(fr)
     IN /\ sk' = made.key
        /\ fr' = made.src
  /\ out' = [op |-> "from_mut", given |-> fr]
  /\ UNCHANGED <<poly, commit, skOther, msg, sig, ct, origin, shares>>

\* sk = SecretKeyShare::from_mut(&mut fr).
ShareFromMut ==
  /\ LET made == SecretKeyShare_from_mut(fr)
     IN /\ sk' = made.key
        /\ fr' = made.src
  /\ out' = [op |-> "share_from_mut", given |-> fr]
  /\ UNCHANGED <<poly, commit, skOther, msg, sig, ct, origin, shares>>

\* sk = SecretKey::default(); fr is the local of default().
DefaultKey ==
  /\ sk' = SecretKey_default.key
  /\ fr' = SecretKey_default.src
  /\ out' = [op |-> "default", given |-> FrZero]
  /\ UNCHANGED <<poly, commit, skOther, msg, sig, ct, origin, shares>>

\* sk = SecretKey::rand(rng), the generator yielding x; fr is the local.
RandKey(x) ==
  /\ sk' = SecretKey_rand(x).key
  /\ fr' = SecretKey_rand(x).src
  /\ out' = [op |-> "rand", given |-> x]
  /\ UNCHANGED <<poly, commit, skOther, msg, sig, ct, origin, shares>>

\* skOther = sk.clone(); fr is the local copy that clone() hands to from_mut.
CloneKey ==
  /\ LET made == SecretKey_clone(sk)
     IN /\ skOther' = made.key
        /\ fr' = made.src
  /\ out' = [op |-> "clone", original |-> sk]
  /\ UNCHANGED <<poly, commit, sk, msg, sig, ct, origin, shares>>

NextSecret ==
  \/ \E x \in Fr : AssignFr(x)
  \/ FromMut
  \/ ShareFromMut
  \/ DefaultKey
  \/ \E x \in Fr : RandKey(x)
  \/ CloneKey

SpecSecret == InitSecret /\ [][NextSecret]_vars

\* C15: a key made by from_mut (and by SecretKeyShare::from_mut, default and
\* rand, which go through it) holds the scalar the source held on entry, and
\* the source is zero on return; clone makes a key with the same scalar in a
\* box of its own, leaves the original as it was and zeroes only its local.
C15_FromMutMovesTheScalar ==
  /\ out.op \in {"from_mut", "share_from_mut", "default", "rand"} =>
       (sk = out.given /\ fr = FrZero)
  /\ out.op = "clone" =>
       (skOther = out.original /\ sk = out.original /\ fr = FrZero)

C15_Witness ==
  /\ out.op = "clone"
  /\ out.original = 3
  /\ sk = 3
  /\ skOther = 3
  /\ fr = FrZero

(***************************************************************************)
(* Shares checked against public key shares: a key set, a ciphertext for   *)
(* its master key whose parts may be replaced, and for a chosen            *)
(* index the share of the secret key share verified by the public key      *)
(* share of the same index.                                                *)
(***************************************************************************)
\* The largest threshold of the key sets whose shares are checked.
MaxShareT == 1

\* The polynomials of those key sets.
SharePolys == UNION {[1..n -> Fr] : n \in 1..(MaxShareT + 1)}

InitShares ==
  /\ poly \in SharePolys
  /\ commit = public_keys(poly)
  /\ sk = FrZero
  /\ skOther = FrZero
  /\ msg \in ThresholdMsgs
  /\ sig = NoSig
  /\ ct = NoCt
  /\ origin = "none"
  /\ shares = <<>>
  /\ fr = FrZero
  /\ out = NoOut

\* Ciphertext(r * P1, v, r * H12(r * P1, v)): the group elements of the
\* ciphertext of encrypt_with_rng replaced by a pair that satisfies the
\* pairing equation for the same bytes.
ForgeCiphertext(r) ==
  /\ origin = "encrypt"
  /\ GMul(G1One, r) # ct.u
  /\ ct' = [ct EXCEPT !.u = GMul(G1One, r),
                      !.w = GMul(hash_g1_g2(GMul(G1One, r), ct.v), r)]
  /\ origin' = "tampered"
  /\ out' = NoOut
  /\ UNCHANGED <<poly, commit, sk, skOther, msg, sig, shares, fr>>

\* pk_set.public_key_share(i).verify_decryption_share(&share, &ct) for the
\* share of sk_set.secret_key_share(i).decrypt_share(&ct), if there is one.
VerifyDecryptionShare(i) ==
  /\ ct # NoCt
  /\ LET key == secret_key_share(poly, i)
         share == decrypt_share(key.key, ct)
     IN /\ out' = IF share.some
                  THEN [op |-> "verify_decryption_share", i |-> i, share |-> share,
                        res |-> verify_decryption_share(public_key_share(commit, i),
                                                        share.val, ct)]
                  ELSE [op |-> "verify_decryption_share", i |-> i, share |-> share]
        /\ fr' = key.src
  /\ UNCHANGED <<poly, commit, sk, skOther, msg, sig, ct, origin, shares>>

\* pk_set.public_key_share(i).verify(&share, msg) for the share of
\* sk_set.secret_key_share(i).sign(msg).  Signatures read no ciphertext:
\* they are checked before one is made.
VerifySignatureShare(i) ==
  /\ ct = NoCt
  /\ LET key == secret_key_share(poly, i)
         share == SecretKeyShare_sign(key.key, msg)
     IN /\ out' = [op |-> "verify_signature_share", i |-> i, share |-> share,
                   res |-> PublicKeyShare_verify(public_key_share(commit, i), share, msg)]
        /\ fr' = key.src
  /\ UNCHANGED <<poly, commit, sk, skOther, msg, sig, ct, origin, shares>>

NextShares ==
  \/ \E r \in Fr : EncryptMaster(r)
  \/ \E r \in Fr : ForgeCiphertext(r)
  \/ TamperZeroV
  \/ \E i \in Indices : VerifyDecryptionShare(i)
  \/ \E i \in Indices : VerifySignatureShare(i)

SpecShares == InitShares /\ [][NextShares]_vars

\* C16: for every key set, every index i and every ciphertext that passes
\* verify(), decrypt_share of secret_key_share(i) returns Some(f(i+1) * U)
\* and public_key_share(i).verify_decryption_share accepts it; the signature
\* share of secret_key_share(i) on a message verifies against
\* public_key_share(i).
C16_SharesVerify ==
  /\ (out.op = "verify_decryption_share" /\ WellFormed(ct)) =>
       /\ out.share = Some((ValueAt(poly, (out.i + 1) % Order) * ct.u) % Order)
       /\ out.res = TRUE
  /\ out.op = "verify_signature_share" =>
       /\ out.share = (ValueAt(poly, (out.i + 1) % Order) * hash_g2(msg)) % Order
       /\ out.res = TRUE

C16_Witness ==
  /\ out.op = "verify_decryption_share"
  /\ WellFormed(ct)
  /\ origin = "tampered"
  /\ Degree(poly) = 1
  /\ poly[2] # FrZero
  /\ ct.u # GZero
  /\ out.share.some
  /\ out.share.val # GZero
  /\ out.share.val # ct.u
  /\ out.res = TRUE

=============================================================================
